---- MODULE Spec2Model ----
(***************************************************************************)
(* Model of the view-state controller of the weather App component         *)
(* (src/src/App.tsx): the seven useState cells, the startup geolocation    *)
(* effect, handleSearch, fetchWeather, fetchForecast, toggleDarkMode and   *)
(* the forecast-strip filter of the render function.                       *)
(*                                                                         *)
(* Every await on axios.get is a request in flight (an element of net);    *)
(* the code that runs when the request settles, up to the next await or    *)
(* the end of the handler, is one action.  Triggers are numbered: 0 is     *)
(* the startup effect, 1..MaxSearches are the submit-search invocations.   *)
(***************************************************************************)
EXTENDS Integers, Sequences, FiniteSets, TLC

\* ------------------------------------------------------------------ bounds
MaxSearches == 2
MaxListLen == 40

\* ------------------------------------------------------- program constants
MsgLocation == "Unable to retrieve your location. Please search for a city."
MsgUnsupported == "Geolocation is not supported by your browser. Please search for a city."
MsgWeather == "Unable to fetch weather data. Please try again."
MsgNotFound == "City not found. Please try again."
MsgError == "An error occurred. Please try again."
StripStep == 8

\* --------------------------------------------------------------- inputs
Cities == {"", "Paris"}
Coords == {[lat |-> 48, lon |-> 2], [lat |-> 52, lon |-> 13]}
Searches == 1..MaxSearches
Triggers == 0..MaxSearches
ListLens == 0..MaxListLen
ControlLens == {StripStep + 1}
Kinds == {"geocode", "weather", "forecast"}

Null == [null |-> TRUE]

VARIABLES
  city, weather, forecast, loading, error, coords, darkMode,
  geo,      \* position of the startup effect
  pc,       \* position of each handleSearch invocation
  net,      \* requests in flight
  nreq,     \* number of requests each trigger has issued, by kind
  gres, wres, fres,  \* how each trigger's requests settled
  seterr,   \* the non-empty messages each handleSearch invocation stored in error
  clicks    \* clicks on the dark-mode button: 0 none, 1 an odd number, 2 an even number

vars == <<city, weather, forecast, loading, error, coords, darkMode,
          geo, pc, net, nreq, gres, wres, fres, seterr, clicks>>

view == <<city, weather, forecast, loading, error, coords, darkMode>>

\* ------------------------------------------------------------- requests
GeocodeReq(t, q) == [trig |-> t, kind |-> "geocode", q |-> q]
WeatherReq(t, c) == [trig |-> t, kind |-> "weather", lat |-> c.lat, lon |-> c.lon]
ForecastReq(t, c) == [trig |-> t, kind |-> "forecast", lat |-> c.lat, lon |-> c.lon]

\* response.data of the current-weather endpoint for a request
WeatherData(r) == [lat |-> r.lat, lon |-> r.lon]

\* response.data of the forecast endpoint: n entries at 3-hour intervals
ForecastData(r, n) == [lat |-> r.lat, lon |-> r.lon, list |-> [i \in 1..n |-> [dt |-> 3 * (i - 1)]]]

\* variant: the index is taken one-based
KeepIndexOneBased(index) == (index + 1) % StripStep = 0

\* ---------------------------------------------------------- presentation
KeepIndex(index) == index % StripStep = 0

RECURSIVE FilterFrom(_, _)
FilterFrom(list, i) ==
  IF i > Len(list) THEN <<>>
  ELSE (IF KeepIndex(i - 1) THEN <<list[i]>> ELSE <<>>) \o FilterFrom(list, i + 1)

\* forecast.list.filter((_, index) => index % 8 === 0); nothing rendered for null
ForecastStrip == IF forecast = Null THEN <<>> ELSE FilterFrom(forecast.list, 1)

\* disabled={loading} on the submit button, the form's only submit control:
\* while it is disabled the form cannot be submitted
SubmitEnabled == ~loading

\* ------------------------------------------------------------------ Init
Init ==
  /\ city = ""
  /\ weather = Null
  /\ forecast = Null
  /\ loading = FALSE
  /\ error = ""
  /\ coords = Null
  /\ darkMode = FALSE
  /\ geo = "init"
  /\ pc = [s \in Searches |-> "idle"]
  /\ net = {}
  /\ nreq = [t \in Triggers |-> [k \in Kinds |-> 0]]
  /\ gres = [s \in Searches |-> "none"]
  /\ wres = [t \in Triggers |-> "none"]
  /\ fres = [t \in Triggers |-> "none"]
  /\ seterr = [s \in Searches |-> {}]
  /\ clicks = 0

\* --------------------------------------------------------------- startup
\* useEffect, navigator.geolocation present: getCurrentPosition is called
StartupLocate ==
  /\ geo = "init"
  /\ geo' = "pending"
  /\ UNCHANGED <<view, pc, net, nreq, gres, wres, fres, seterr, clicks>>

\* useEffect, navigator.geolocation absent
StartupUnsupported ==
  /\ geo = "init"
  /\ geo' = "unsupported"
  /\ error' = MsgUnsupported
  /\ UNCHANGED <<city, weather, forecast, loading, coords, darkMode,
                 pc, net, nreq, gres, wres, fres, seterr, clicks>>

\* success callback: setCoords, fetchWeather (up to its await), fetchForecast (up to its await)
GeoSuccess(c) ==
  /\ geo = "pending"
  /\ geo' = "granted"
  /\ coords' = c
  /\ loading' = TRUE
  /\ error' = ""
  /\ net' = net \cup {WeatherReq(0, c), ForecastReq(0, c)}
  /\ nreq' = [nreq EXCEPT ![0]["weather"] = @ + 1, ![0]["forecast"] = @ + 1]
  /\ UNCHANGED <<city, weather, forecast, darkMode, pc, gres, wres, fres, seterr, clicks>>

\* variant: the error callback falls back to a default location and fetches
GeoErrorFallback ==
  /\ geo = "pending"
  /\ geo' = "denied"
  /\ error' = ""
  /\ loading' = TRUE
  /\ LET c == CHOOSE d \in Coords : TRUE
     IN /\ net' = net \cup {WeatherReq(0, c), ForecastReq(0, c)}
        /\ nreq' = [nreq EXCEPT ![0]["weather"] = @ + 1, ![0]["forecast"] = @ + 1]
  /\ UNCHANGED <<city, weather, forecast, coords, darkMode, pc, gres, wres, fres, seterr, clicks>>

\* error callback
GeoError ==
  /\ geo = "pending"
  /\ geo' = "denied"
  /\ error' = MsgLocation
  /\ UNCHANGED <<city, weather, forecast, loading, coords, darkMode,
                 pc, net, nreq, gres, wres, fres, seterr, clicks>>

\* startup fetchWeather resumes after a fulfilled await
StartupWeatherOk(r) ==
  /\ r \in net /\ r.trig = 0 /\ r.kind = "weather"
  /\ weather' = WeatherData(r)
  /\ loading' = FALSE
  /\ net' = net \ {r}
  /\ wres' = [wres EXCEPT ![0] = "ok"]
  /\ UNCHANGED <<city, forecast, error, coords, darkMode, geo, pc, nreq, gres, fres, seterr, clicks>>

\* variant: the catch block of fetchWeather retries the request once
StartupWeatherFailRetry(r) ==
  /\ r \in net /\ r.trig = 0 /\ r.kind = "weather"
  /\ nreq[0]["weather"] < 2
  /\ nreq' = [nreq EXCEPT ![0]["weather"] = @ + 1]
  /\ UNCHANGED <<view, geo, pc, net, gres, wres, fres, seterr, clicks>>

\* startup fetchWeather resumes in its catch block
StartupWeatherFail(r) ==
  /\ r \in net /\ r.trig = 0 /\ r.kind = "weather"
  /\ error' = MsgWeather
  /\ loading' = FALSE
  /\ net' = net \ {r}
  /\ wres' = [wres EXCEPT ![0] = "fail"]
  /\ UNCHANGED <<city, weather, forecast, coords, darkMode, geo, pc, nreq, gres, fres, seterr, clicks>>

\* startup fetchForecast resumes after a fulfilled await
StartupForecastOk(r, n) ==
  /\ r \in net /\ r.trig = 0 /\ r.kind = "forecast"
  /\ forecast' = ForecastData(r, n)
  /\ net' = net \ {r}
  /\ fres' = [fres EXCEPT ![0] = "ok"]
  /\ UNCHANGED <<city, weather, loading, error, coords, darkMode, geo, pc, nreq, gres, wres, seterr, clicks>>

\* startup fetchForecast resumes in its catch block (console.error only)
StartupForecastFail(r) ==
  /\ r \in net /\ r.trig = 0 /\ r.kind = "forecast"
  /\ net' = net \ {r}
  /\ fres' = [fres EXCEPT ![0] = "fail"]
  /\ UNCHANGED <<view, geo, pc, nreq, gres, wres, seterr, clicks>>

\* ------------------------------------------------------------ user input
\* The effect runs right after the first render, before any input event is
\* handled, hence geo # "init" in the guards of the user's actions.
\* onChange of the text input
SetCity(c) ==
  /\ geo # "init"
  /\ city # c
  /\ city' = c
  /\ UNCHANGED <<weather, forecast, loading, error, coords, darkMode,
                 geo, pc, net, nreq, gres, wres, fres, seterr, clicks>>

\* variant: setDarkMode(true)
toggleDarkModeSet ==
  /\ geo # "init"
  /\ darkMode' = TRUE
  /\ clicks' = IF clicks = 1 THEN 2 ELSE 1
  /\ UNCHANGED <<city, weather, forecast, loading, error, coords,
                 geo, pc, net, nreq, gres, wres, fres, seterr>>

toggleDarkMode ==
  /\ geo # "init"
  /\ darkMode' = ~darkMode
  /\ clicks' = IF clicks = 1 THEN 2 ELSE 1
  /\ UNCHANGED <<city, weather, forecast, loading, error, coords,
                 geo, pc, net, nreq, gres, wres, fres, seterr>>

\* --------------------------------------------------------- submit-search
\* handleSearch up to the await of the geocoding request
Submit(s) ==
  /\ geo # "init"
  /\ SubmitEnabled
  /\ pc[s] = "idle"
  /\ \A u \in Searches : u < s => pc[u] # "idle"
  /\ loading' = TRUE
  /\ error' = ""
  /\ net' = net \cup {GeocodeReq(s, city)}
  /\ nreq' = [nreq EXCEPT ![s]["geocode"] = @ + 1]
  /\ pc' = [pc EXCEPT ![s] = "geo"]
  /\ UNCHANGED <<city, weather, forecast, coords, darkMode, geo, gres, wres, fres, seterr, clicks>>

\* geocoding answered with a non-empty list: setCoords, then fetchWeather up to its await
GeocodeOk(r, c) ==
  /\ r \in net /\ r.kind = "geocode"
  /\ coords' = c
  /\ loading' = TRUE
  /\ error' = ""
  /\ net' = (net \ {r}) \cup {WeatherReq(r.trig, c)}
  /\ nreq' = [nreq EXCEPT ![r.trig]["weather"] = @ + 1]
  /\ pc' = [pc EXCEPT ![r.trig] = "weather"]
  /\ gres' = [gres EXCEPT ![r.trig] = "ok"]
  /\ UNCHANGED <<city, weather, forecast, darkMode, geo, wres, fres, seterr, clicks>>

\* variant: the else branch returns before the final setLoading(false)
GeocodeEmptyReturn(r) ==
  /\ r \in net /\ r.kind = "geocode"
  /\ error' = MsgNotFound
  /\ net' = net \ {r}
  /\ pc' = [pc EXCEPT ![r.trig] = "done"]
  /\ gres' = [gres EXCEPT ![r.trig] = "empty"]
  /\ seterr' = [seterr EXCEPT ![r.trig] = @ \cup {MsgNotFound}]
  /\ UNCHANGED <<city, weather, forecast, loading, coords, darkMode, geo, nreq, wres, fres, clicks>>

\* geocoding answered with an empty list: else branch, then the final setLoading(false)
GeocodeEmpty(r) ==
  /\ r \in net /\ r.kind = "geocode"
  /\ error' = MsgNotFound
  /\ loading' = FALSE
  /\ net' = net \ {r}
  /\ pc' = [pc EXCEPT ![r.trig] = "done"]
  /\ gres' = [gres EXCEPT ![r.trig] = "empty"]
  /\ seterr' = [seterr EXCEPT ![r.trig] = @ \cup {MsgNotFound}]
  /\ UNCHANGED <<city, weather, forecast, coords, darkMode, geo, nreq, wres, fres, clicks>>

\* variant: setLoading(false) sits inside the try block and is skipped on a rejection
GeocodeFailNoClear(r) ==
  /\ r \in net /\ r.kind = "geocode"
  /\ error' = MsgError
  /\ net' = net \ {r}
  /\ pc' = [pc EXCEPT ![r.trig] = "done"]
  /\ gres' = [gres EXCEPT ![r.trig] = "fail"]
  /\ seterr' = [seterr EXCEPT ![r.trig] = @ \cup {MsgError}]
  /\ UNCHANGED <<city, weather, forecast, loading, coords, darkMode, geo, nreq, wres, fres, clicks>>

\* geocoding request rejected: catch block, then the final setLoading(false)
GeocodeFail(r) ==
  /\ r \in net /\ r.kind = "geocode"
  /\ error' = MsgError
  /\ loading' = FALSE
  /\ net' = net \ {r}
  /\ pc' = [pc EXCEPT ![r.trig] = "done"]
  /\ gres' = [gres EXCEPT ![r.trig] = "fail"]
  /\ seterr' = [seterr EXCEPT ![r.trig] = @ \cup {MsgError}]
  /\ UNCHANGED <<city, weather, forecast, coords, darkMode, geo, nreq, wres, fres, clicks>>

\* awaited fetchWeather fulfilled and returned; handleSearch goes on to fetchForecast up to its await
SearchWeatherOk(r) ==
  /\ r \in net /\ r.trig # 0 /\ r.kind = "weather"
  /\ weather' = WeatherData(r)
  /\ loading' = FALSE
  /\ net' = (net \ {r}) \cup {ForecastReq(r.trig, r)}
  /\ nreq' = [nreq EXCEPT ![r.trig]["forecast"] = @ + 1]
  /\ pc' = [pc EXCEPT ![r.trig] = "forecast"]
  /\ wres' = [wres EXCEPT ![r.trig] = "ok"]
  /\ UNCHANGED <<city, forecast, error, coords, darkMode, geo, gres, fres, seterr, clicks>>

\* awaited fetchWeather caught its error and returned; handleSearch goes on to fetchForecast
SearchWeatherFail(r) ==
  /\ r \in net /\ r.trig # 0 /\ r.kind = "weather"
  /\ error' = MsgWeather
  /\ loading' = FALSE
  /\ net' = (net \ {r}) \cup {ForecastReq(r.trig, r)}
  /\ nreq' = [nreq EXCEPT ![r.trig]["forecast"] = @ + 1]
  /\ pc' = [pc EXCEPT ![r.trig] = "forecast"]
  /\ wres' = [wres EXCEPT ![r.trig] = "fail"]
  /\ seterr' = [seterr EXCEPT ![r.trig] = @ \cup {MsgWeather}]
  /\ UNCHANGED <<city, weather, forecast, coords, darkMode, geo, gres, fres, clicks>>

\* awaited fetchForecast fulfilled and returned; handleSearch ends with setLoading(false)
SearchForecastOk(r, n) ==
  /\ r \in net /\ r.trig # 0 /\ r.kind = "forecast"
  /\ forecast' = ForecastData(r, n)
  /\ loading' = FALSE
  /\ net' = net \ {r}
  /\ pc' = [pc EXCEPT ![r.trig] = "done"]
  /\ fres' = [fres EXCEPT ![r.trig] = "ok"]
  /\ UNCHANGED <<city, weather, error, coords, darkMode, geo, nreq, gres, wres, seterr, clicks>>

\* variant: the catch block of fetchForecast reports the failure with setError
SearchForecastFailShown(r) ==
  /\ r \in net /\ r.trig # 0 /\ r.kind = "forecast"
  /\ error' = MsgWeather
  /\ loading' = FALSE
  /\ net' = net \ {r}
  /\ pc' = [pc EXCEPT ![r.trig] = "done"]
  /\ fres' = [fres EXCEPT ![r.trig] = "fail"]
  /\ seterr' = [seterr EXCEPT ![r.trig] = @ \cup {MsgWeather}]
  /\ UNCHANGED <<city, weather, forecast, coords, darkMode, geo, nreq, gres, wres, clicks>>

\* awaited fetchForecast caught its error and returned; handleSearch ends with setLoading(false)
SearchForecastFail(r) ==
  /\ r \in net /\ r.trig # 0 /\ r.kind = "forecast"
  /\ loading' = FALSE
  /\ net' = net \ {r}
  /\ pc' = [pc EXCEPT ![r.trig] = "done"]
  /\ fres' = [fres EXCEPT ![r.trig] = "fail"]
  /\ UNCHANGED <<city, weather, forecast, error, coords, darkMode, geo, nreq, gres, wres, seterr, clicks>>

\* ------------------------------------------------------------------ Next
Next ==
  \/ StartupLocate
  \/ StartupUnsupported
  \/ \E c \in Coords : GeoSuccess(c)
  \/ GeoError
  \/ \E r \in net : StartupWeatherOk(r)
  \/ \E r \in net : StartupWeatherFail(r)
  \/ \E r \in net, n \in ControlLens : StartupForecastOk(r, n)
  \/ \E r \in net : StartupForecastFail(r)
  \/ \E c \in Cities : SetCity(c)
  \/ toggleDarkMode
  \/ \E s \in Searches : Submit(s)
  \/ \E r \in net, c \in Coords : GeocodeOk(r, c)
  \/ \E r \in net : GeocodeEmpty(r)
  \/ \E r \in net : GeocodeFail(r)
  \/ \E r \in net : SearchWeatherOk(r)
  \/ \E r \in net : SearchWeatherFail(r)
  \/ \E r \in net, n \in ControlLens : SearchForecastOk(r, n)
  \/ \E r \in net : SearchForecastFail(r)

Spec == Init /\ [][Next]_vars

\* every request eventually settles: the transport fulfils or rejects each axios.get
Settle ==
  \/ \E r \in net : StartupWeatherOk(r)
  \/ \E r \in net : StartupWeatherFail(r)
  \/ \E r \in net, n \in ControlLens : StartupForecastOk(r, n)
  \/ \E r \in net : StartupForecastFail(r)
  \/ \E r \in net, c \in Coords : GeocodeOk(r, c)
  \/ \E r \in net : GeocodeEmpty(r)
  \/ \E r \in net : GeocodeFail(r)
  \/ \E r \in net : SearchWeatherOk(r)
  \/ \E r \in net : SearchWeatherFail(r)
  \/ \E r \in net, n \in ControlLens : SearchForecastOk(r, n)
  \/ \E r \in net : SearchForecastFail(r)

FairSpec == Spec /\ WF_vars(Settle)

\* the startup path alone, with forecast lists of every length up to MaxListLen
NextStrip ==
  \/ StartupLocate
  \/ StartupUnsupported
  \/ \E c \in Coords : GeoSuccess(c)
  \/ GeoError
  \/ \E r \in net : StartupWeatherOk(r)
  \/ \E r \in net : StartupWeatherFail(r)
  \/ \E r \in net, n \in ListLens : StartupForecastOk(r, n)
  \/ \E r \in net : StartupForecastFail(r)
  \/ toggleDarkMode

SpecStrip == Init /\ [][NextStrip]_vars

TypeOK ==
  /\ city \in Cities
  /\ loading \in BOOLEAN
  /\ darkMode \in BOOLEAN
  /\ coords \in Coords \cup {Null}
  /\ geo \in {"init", "pending", "unsupported", "denied", "granted"}
  /\ clicks \in {0, 1, 2}
  /\ \A s \in Searches : pc[s] \in {"idle", "geo", "weather", "forecast", "done"}

\* ------------------------------------------------------------------ claims

\* C1: while a request issued by handleSearch (geocoding, current weather or
\* forecast) is in flight, loading is true.
C1_LoadingWhileSearchInFlight ==
  \A r \in net : r.trig # 0 => loading = TRUE

\* C2: when coords is non-null, a non-null weather and a non-null forecast are
\* the responses to requests made with exactly the current coords.
C2_CoordsConsistent ==
  coords # Null =>
    /\ weather # Null => (weather.lat = coords.lat /\ weather.lon = coords.lon)
    /\ forecast # Null => (forecast.lat = coords.lat /\ forecast.lon = coords.lon)

\* C3: the step in which a current-weather request fails leaves weather null,
\* and the step in which a forecast request fails leaves forecast null.
C3_NullAfterFailedLoad ==
  [][\A t \in Triggers :
       /\ (wres[t] = "none" /\ wres'[t] = "fail") => weather' = Null
       /\ (fres[t] = "none" /\ fres'[t] = "fail") => forecast' = Null]_vars

\* C4: when geolocation is denied or unsupported, the step stores one of the two
\* non-empty search-for-a-city messages in error, issues no request and leaves
\* coords, weather, forecast and loading unchanged; the startup path has then
\* issued no current-weather and no forecast request, and never does.
C4_StartupUnavailable ==
  /\ [](geo \in {"denied", "unsupported"} =>
          nreq[0]["weather"] = 0 /\ nreq[0]["forecast"] = 0)
  /\ [][((geo = "pending" /\ geo' = "denied") \/ (geo = "init" /\ geo' = "unsupported")) =>
          /\ error' \in {MsgLocation, MsgUnsupported}
          /\ error' # ""
          /\ UNCHANGED <<coords, weather, forecast, loading, net, nreq>>]_vars

C4_Witness ==
  /\ geo = "denied"
  /\ error = MsgLocation
  /\ nreq[0]["weather"] = 0 /\ nreq[0]["forecast"] = 0

\* C5: the step in which a search's geocoding request is answered with an empty
\* list stores the city-not-found message in error, ends the search with loading
\* false, issues no request and leaves coords, weather and forecast unchanged;
\* such a search never issues a current-weather or forecast request.
C5_CityNotFound ==
  /\ [](\A s \in Searches : gres[s] = "empty" =>
          nreq[s]["weather"] = 0 /\ nreq[s]["forecast"] = 0 /\ pc[s] = "done")
  /\ [][\A s \in Searches : (gres[s] = "none" /\ gres'[s] = "empty") =>
          /\ error' = MsgNotFound
          /\ loading' = FALSE
          /\ net' \subseteq net
          /\ UNCHANGED <<coords, weather, forecast, nreq>>]_vars

C5_Witness ==
  \E s \in Searches :
    /\ gres[s] = "empty" /\ pc[s] = "done"
    /\ error = MsgNotFound /\ ~loading
    /\ weather # Null

\* C6: the step in which startup geolocation succeeds sets coords and issues one
\* current-weather and one forecast request, both with the new coords; the
\* startup path never issues more than one request of either kind, whatever the
\* requests' outcomes.
C6_StartupFetchOnce ==
  /\ [](/\ nreq[0]["geocode"] = 0
        /\ nreq[0]["weather"] = (IF geo = "granted" THEN 1 ELSE 0)
        /\ nreq[0]["forecast"] = (IF geo = "granted" THEN 1 ELSE 0))
  /\ [][(geo = "pending" /\ geo' = "granted") =>
          /\ coords' \in Coords
          /\ net' = net \cup {WeatherReq(0, coords'), ForecastReq(0, coords')}]_vars

C6_Witness ==
  /\ geo = "granted"
  /\ wres[0] = "fail" /\ fres[0] = "fail"
  /\ nreq[0]["weather"] = 1 /\ nreq[0]["forecast"] = 1

\* C7 as stated: for a trigger whose current-weather request succeeded, the step
\* in which its forecast request fails leaves weather, error and loading
\* unchanged, with weather non-null.
C7_ForecastFailLeavesAll ==
  [][\A t \in Triggers : (wres[t] = "ok" /\ fres[t] = "none" /\ fres'[t] = "fail") =>
       /\ UNCHANGED <<weather, error, loading>>
       /\ weather' # Null]_vars

\* C7 amended: for a trigger whose current-weather request succeeded, the step
\* in which its forecast request fails leaves weather, forecast, coords and
\* error unchanged, with weather non-null; loading is unchanged for the startup
\* trigger and false afterwards for a submit-search.
C7_ForecastFailNonFatal ==
  [][\A t \in Triggers : (wres[t] = "ok" /\ fres[t] = "none" /\ fres'[t] = "fail") =>
       /\ UNCHANGED <<weather, forecast, coords, error>>
       /\ weather' # Null
       /\ (t = 0 => UNCHANGED loading)
       /\ (t # 0 => loading' = FALSE)]_vars

C7_Witness ==
  \E t \in Searches :
    /\ wres[t] = "ok" /\ fres[t] = "fail"
    /\ weather # Null /\ error = "" /\ ~loading

\* C8: every submitted search reaches the end of handleSearch; the step that
\* ends it leaves loading false; and a finished search has stored a non-empty
\* error message exactly when its geocoding failed or was empty or its
\* current-weather request failed.
C8_SearchTerminates ==
  /\ \A s \in Searches : (pc[s] = "geo") ~> (pc[s] = "done")
  /\ [][\A s \in Searches : (pc[s] # "done" /\ pc'[s] = "done") => loading' = FALSE]_vars
  /\ [](\A s \in Searches : pc[s] = "done" =>
          ((seterr[s] # {}) <=> (gres[s] \in {"fail", "empty"} \/ wres[s] = "fail")))

C8_Witness ==
  \E s \in Searches :
    /\ pc[s] = "done"
    /\ gres[s] = "ok" /\ wres[s] = "fail" /\ fres[s] = "ok"
    /\ seterr[s] = {MsgWeather}
    /\ ~loading

\* C9: the strip rendered from a forecast list of length n has ceil(n/8)
\* entries, the k-th of them (from 0) being the list entry at index 8k.
C9_StripEveryEighth ==
  forecast # Null =>
    LET n == Len(forecast.list)
        m == (n + StripStep - 1) \div StripStep
    IN /\ Len(ForecastStrip) = m
       /\ \A k \in 1..m : ForecastStrip[k] = forecast.list[StripStep * (k - 1) + 1]

C9_Witness ==
  /\ forecast # Null
  /\ Len(forecast.list) = 40
  /\ Len(ForecastStrip) = 5
  /\ [k \in 1..5 |-> ForecastStrip[k].dt] = <<0, 24, 48, 72, 96>>

\* C10: darkMode is true exactly after an odd number of toggles, and a toggle
\* leaves city, weather, forecast, coords, loading and error unchanged.
C10_ToggleFlip ==
  /\ [](darkMode = (clicks = 1))
  /\ [][clicks' # clicks =>
          /\ darkMode' = ~darkMode
          /\ UNCHANGED <<city, weather, forecast, coords, loading, error>>]_vars

C10_Witness ==
  /\ clicks = 2
  /\ darkMode = FALSE
  /\ weather # Null
  /\ net # {}

====
